---- MODULE Spec2Model ----
(***************************************************************************)
(* Model of the study planner: the greedy allocator                        *)
(* (first_study_plan.allocate_by_priority) and the command line replanner  *)
(* (done_task.load_plan_csv, aggregate_tasks_from_plan, run).              *)
(*                                                                         *)
(* Hours are exact rationals [n, d] in lowest terms with d > 0; the        *)
(* program computes them as binary floating point numbers, whose rounding  *)
(* is not modelled.                                                        *)
(***************************************************************************)
EXTENDS Integers, Sequences, FiniteSets, TLC

(***************************************************************************)
(* Bounds of the model.                                                    *)
(***************************************************************************)
\* longest capacity sequence handed to the allocator / stored in a file
MaxDays == 2
\* largest item count a task starts with
MaxRemaining == 3
\* largest Assigned count in a row of a plan file
MaxAssigned == 3

(***************************************************************************)
(* Rational arithmetic.                                                    *)
(***************************************************************************)
Abs(x) == IF x < 0 THEN -x ELSE x

RECURSIVE GCD(_, _)
GCD(a, b) == IF b = 0 THEN a ELSE GCD(b, a % b)

Rat(n, d) ==
    LET s == IF d < 0 THEN -1 ELSE 1
        g == GCD(Abs(n), Abs(d))
    IN  [n |-> (s * n) \div g, d |-> (s * d) \div g]

RInt(k) == [n |-> k, d |-> 1]
RZero == RInt(0)
RAdd(a, b) == Rat(a.n * b.d + b.n * a.d, a.d * b.d)
RSub(a, b) == Rat(a.n * b.d - b.n * a.d, a.d * b.d)
RMul(a, b) == Rat(a.n * b.n, a.d * b.d)
RScale(k, a) == Rat(k * a.n, a.d)
\* a / b for b # 0
RDiv(a, b) == Rat(a.n * b.d, a.d * b.n)
RLt(a, b) == a.n * b.d < b.n * a.d
RLe(a, b) == a.n * b.d <= b.n * a.d
RPos(a) == a.n > 0
\* math.floor of a rational
RFloor(a) == a.n \div a.d

Min(a, b) == IF a <= b THEN a ELSE b
Max(a, b) == IF a >= b THEN a ELSE b

RECURSIVE SumSeq(_)
SumSeq(s) == IF s = <<>> THEN 0 ELSE Head(s) + SumSeq(Tail(s))

RECURSIVE RSumSeq(_)
RSumSeq(s) == IF s = <<>> THEN RZero ELSE RAdd(Head(s), RSumSeq(Tail(s)))

(***************************************************************************)
(* Input domains.                                                          *)
(***************************************************************************)
\* task names, in the order of the caller's list
Names == <<"A", "B">>
\* hours of one day
Capacities == {RZero, Rat(1, 2), RInt(3)}
TimesPerItem == {RZero, RInt(1)}
Difficulties == {RInt(-1), RInt(1), RInt(2)}
Priorities == {1, 2}

SeqsUpTo(S, n) == UNION {[1..k -> S] : k \in 0..n}

\* a task dict as built by collect_inputs / _parse_inputs / run
TaskDict(name, remaining, time_per_item, difficulty, priority) ==
    [name |-> name, remaining |-> remaining, total |-> remaining,
     time_per_item |-> time_per_item, difficulty |-> difficulty,
     priority |-> priority]

TaskLists ==
    UNION {
      { [i \in 1..k |-> TaskDict(Names[i], f[i][1], f[i][2], f[i][3], f[i][4])] :
          f \in [1..k -> (0..MaxRemaining) \X TimesPerItem \X Difficulties \X Priorities] }
      : k \in 0..Len(Names) }

(***************************************************************************)
(* State.                                                                  *)
(***************************************************************************)
VARIABLES
    pc,              \* position of the running program
    day_capacities,  \* allocate_by_priority: argument day_capacities
    tasks,           \* allocate_by_priority: argument tasks (dicts mutated in place)
    tasks_sorted,    \* indices into tasks, in the order of sorted(tasks, key=priority)
    plan,            \* plan[d + 1] is the list of day d
    day,             \* loop variable of the day loop (0-based)
    ti,              \* position of the inner loop in tasks_sorted (1-based)
    remaining_time,
    any_assigned,
    \* done_task.run
    caller,          \* who calls allocate_by_priority: "main" or "run"
    csv_caps,        \* the file: rows of the Day Capacities section
    csv_plan,        \* the file: rows of the Plan section
    run_day_capacities, \* run: day_capacities
    plan_rows,
    tasks_info,      \* dict of aggregate_tasks_from_plan, in insertion order
    today,
    ci,              \* position of the loop of line 201 in tasks_info (1-based)
    completed_by_task, \* one entry per task of tasks_info, in its order
    warned,          \* names for which the warning of line 224 was printed
    remaining_tasks,
    next_day_caps,
    \* history variables (not program state)
    entered,         \* entered[i]: what the user typed for task i at line 210
    asked,           \* the user was asked for capacities at line 254
    tasks0,          \* tasks as they were when allocate_by_priority was entered
    start_remaining, \* start_remaining[d + 1][i]: remaining of tasks[i] when day d began
    log,             \* one entry per execution of lines 121-122, in order
    \* what a replan shows and writes
    combined_plan,   \* PlannerGUI._apply_today_replan: combined_plan
    out_caps,        \* the file written: rows of the Day Capacities section
    out_plan         \* the file written: rows of the Plan section

allocVars == <<day_capacities, tasks, tasks_sorted, plan, day, ti, remaining_time,
               any_assigned, tasks0, start_remaining, log>>

runVars == <<caller, csv_caps, csv_plan, run_day_capacities, plan_rows, tasks_info,
             today, ci, completed_by_task, warned, remaining_tasks, next_day_caps,
             entered, asked>>

saveVars == <<combined_plan, out_caps, out_plan>>

vars == <<pc, allocVars, runVars, saveVars>>

(***************************************************************************)
(* allocate_by_priority                                                    *)
(***************************************************************************)
\* mutant: sorted descending by priority
SortsBefore_Descending(ts, i, j) ==
    \/ ts[i].priority > ts[j].priority
    \/ ts[i].priority = ts[j].priority /\ i < j

\* mutant: of equal priorities the one listed later comes first
SortsBefore_TiesReversed(ts, i, j) ==
    \/ ts[i].priority < ts[j].priority
    \/ ts[i].priority = ts[j].priority /\ i > j

\* sorted() is stable: equal priorities keep the order of the list
SortsBefore(ts, i, j) ==
    \/ ts[i].priority < ts[j].priority
    \/ ts[i].priority = ts[j].priority /\ i < j

SortedByPriority(ts) ==
    [k \in 1..Len(ts) |->
        CHOOSE i \in 1..Len(ts) :
            Cardinality({j \in 1..Len(ts) : SortsBefore(ts, j, i)}) = k - 1]

\* mutant: one list too many
EmptyPlan_OneMore(days) == [d \in 1..(days + 1) |-> <<>>]

EmptyPlan(days) == [d \in 1..days |-> <<>>]

\* line 108
TimePer(t) == RMul(t.time_per_item, t.difficulty)

\* line 106
Exhausted(t) == t.remaining <= 0

\* mutant: only a negative cost is skipped
Degenerate_NegativeOnly(time_per) == RLt(time_per, RZero)

\* line 109
Degenerate(time_per) == RLe(time_per, RZero)

\* mutant: the quotient is rounded up
MaxItems_RoundUp(rt, time_per) ==
    IF RPos(rt) THEN RFloor(RDiv(rt, time_per)) + 1 ELSE 0

\* mutant: at most one item of a task a day
MaxItems_OnePerDay(rt, time_per) ==
    IF RPos(rt) THEN Min(1, RFloor(RDiv(rt, time_per))) ELSE 0

\* line 111, for time_per # 0
MaxItems(rt, time_per) == IF RPos(rt) THEN RFloor(RDiv(rt, time_per)) ELSE 0

\* mutant: the count is not limited by what is left of the task
AssignCount_NoMin(max_items, remaining) == max_items

\* line 113
AssignCount(max_items, remaining) == Min(max_items, remaining)

\* mutant: never force an item
ForceAllowed_Never(rt, remaining, any) == FALSE

\* mutant: force although the day has no time
ForceAllowed_NoTimeTest(rt, remaining, any) == remaining > 0 /\ ~any

\* mutant: force although a task was already assigned that day
ForceAllowed_NoAnyTest(rt, remaining, any) == RPos(rt) /\ remaining > 0

\* line 117
ForceAllowed(rt, remaining, any) == RPos(rt) /\ remaining > 0 /\ ~any

\* mutant: the caller's list is sorted in place (list.sort for sorted)
AllocEnter_SortInPlace ==
    /\ pc = "call"
    /\ tasks' = [p \in 1..Len(tasks) |-> tasks[SortedByPriority(tasks)[p]]]
    /\ tasks_sorted' = [p \in 1..Len(tasks) |-> p]
    /\ plan' = EmptyPlan(Len(day_capacities))
    /\ day' = 0
    /\ tasks0' = tasks'
    /\ pc' = "day"
    /\ UNCHANGED <<day_capacities, ti, remaining_time, any_assigned,
                   start_remaining, log>>
    /\ UNCHANGED runVars
    /\ UNCHANGED saveVars

\* lines 97-99
AllocEnter ==
    /\ pc = "call"
    /\ tasks_sorted' = SortedByPriority(tasks)
    /\ plan' = EmptyPlan(Len(day_capacities))
    /\ day' = 0
    /\ tasks0' = tasks
    /\ pc' = "day"
    /\ UNCHANGED <<day_capacities, tasks, ti, remaining_time, any_assigned,
                   start_remaining, log>>
    /\ UNCHANGED runVars
    /\ UNCHANGED saveVars

\* lines 101-103, and the return of line 131 when the days are used up
AllocDay ==
    /\ pc = "day"
    /\ IF day < Len(day_capacities)
       THEN /\ remaining_time' = day_capacities[day + 1]
            /\ any_assigned' = FALSE
            /\ ti' = 1
            /\ start_remaining' =
                 Append(start_remaining, [i \in 1..Len(tasks) |-> tasks[i].remaining])
            /\ pc' = "task"
       ELSE /\ pc' = "ret"
            /\ UNCHANGED <<remaining_time, any_assigned, ti, start_remaining>>
    /\ UNCHANGED <<day_capacities, tasks, tasks_sorted, plan, day, tasks0, log>>
    /\ UNCHANGED runVars
    /\ UNCHANGED saveVars

\* mutant: the count is added to remaining
Assign_SignError(k, time_per, assign) ==
    /\ tasks' = [tasks EXCEPT ![k].remaining = @ + assign]
    /\ remaining_time' = RSub(remaining_time, RScale(assign, time_per))
    /\ log' = Append(log, [day |-> day, name |-> tasks[k].name, assign |-> assign,
                           rt_before |-> remaining_time, time_per |-> time_per,
                           any_before |-> any_assigned])
    /\ any_assigned' = TRUE
    /\ plan' = [plan EXCEPT ![day + 1] =
                  Append(@, [name |-> tasks[k].name, assigned |-> assign,
                             time |-> RScale(assign, time_per)])]

\* lines 121-129 for task tasks[k]
Assign(k, time_per, assign) ==
    /\ tasks' = [tasks EXCEPT ![k].remaining = @ - assign]
    /\ remaining_time' = RSub(remaining_time, RScale(assign, time_per))
    /\ log' = Append(log, [day |-> day, name |-> tasks[k].name, assign |-> assign,
                           rt_before |-> remaining_time, time_per |-> time_per,
                           any_before |-> any_assigned])
    /\ IF assign > 0
       THEN /\ any_assigned' = TRUE
            /\ plan' = [plan EXCEPT ![day + 1] =
                          Append(@, [name |-> tasks[k].name, assigned |-> assign,
                                     time |-> RScale(assign, time_per)])]
       ELSE UNCHANGED <<any_assigned, plan>>

Skip == UNCHANGED <<tasks, remaining_time, log, any_assigned, plan>>

\* one iteration of the loop of line 105 (lines 105-129), or its end
AllocTask ==
    /\ pc = "task"
    /\ IF ti > Len(tasks_sorted)
       THEN /\ day' = day + 1
            /\ pc' = "day"
            /\ Skip
            /\ UNCHANGED ti
       ELSE LET k == tasks_sorted[ti]
                t == tasks[k]
                time_per == TimePer(t)
            IN  /\ ti' = ti + 1
                /\ UNCHANGED day
                /\ IF Exhausted(t) \/ Degenerate(time_per)
                   THEN Skip /\ pc' = pc
                   ELSE IF RPos(remaining_time) /\ time_per.n = 0
                   THEN \* ZeroDivisionError at line 111
                        Skip /\ pc' = "raised"
                   ELSE LET max_items == MaxItems(remaining_time, time_per)
                        IN  /\ pc' = pc
                            /\ IF max_items > 0
                               THEN Assign(k, time_per, AssignCount(max_items, t.remaining))
                               ELSE IF ForceAllowed(remaining_time, t.remaining, any_assigned)
                               THEN Assign(k, time_per, 1)
                               ELSE Skip
    /\ UNCHANGED <<day_capacities, tasks_sorted, tasks0, start_remaining>>
    /\ UNCHANGED runVars
    /\ UNCHANGED saveVars

(***************************************************************************)
(* The allocator called on arbitrary arguments (first_study_plan.main,     *)
(* PlannerGUI._generate_plan).                                             *)
(***************************************************************************)
AllocIdle ==
    /\ tasks_sorted = <<>>
    /\ plan = <<>>
    /\ day = 0
    /\ ti = 1
    /\ remaining_time = RZero
    /\ any_assigned = FALSE
    /\ tasks0 = <<>>
    /\ start_remaining = <<>>
    /\ log = <<>>

SaveIdle ==
    /\ combined_plan = <<>>
    /\ out_caps = <<>>
    /\ out_plan = <<>>

RunIdle ==
    /\ run_day_capacities = <<>>
    /\ plan_rows = <<>>
    /\ tasks_info = <<>>
    /\ today = 1
    /\ ci = 1
    /\ completed_by_task = <<>>
    /\ warned = {}
    /\ remaining_tasks = <<>>
    /\ next_day_caps = <<>>
    /\ entered = <<>>
    /\ asked = FALSE

InitAlloc ==
    /\ pc = "call"
    /\ caller = "main"
    /\ day_capacities \in SeqsUpTo(Capacities, MaxDays)
    /\ tasks \in TaskLists
    /\ AllocIdle
    /\ csv_caps = <<>>
    /\ csv_plan = <<>>
    /\ RunIdle
    /\ SaveIdle

NextAlloc == AllocEnter \/ AllocDay \/ AllocTask

SpecAlloc == InitAlloc /\ [][NextAlloc]_vars

(***************************************************************************)
(* The plan file.  A cell is a text: of an integer, of a decimal number,   *)
(* empty, or some other text; int() and float() are modelled by what they  *)
(* accept.  A row of the Day Capacities section is <<Day, AvailableHours>>,*)
(* a row of the Plan section <<Day, Task, Assigned, Time(hours)>>, the     *)
(* Task cell being the name itself.                                        *)
(***************************************************************************)
\* the name '(休憩/学習無し)' of a day without work
Idle == "(idle)"

IntText(k) == [kind |-> "int", val |-> k]
DecText(r) == [kind |-> "dec", val |-> r]
EmptyText == [kind |-> "empty", val |-> 0]
OtherText == [kind |-> "other", val |-> 0]

\* int(s) does not raise; its value
IntParses(c) == c.kind = "int"
IntOf(c) == c.val
\* float(s) does not raise; its value
FloatParses(c) == c.kind \in {"int", "dec"}
FloatOf(c) == IF c.kind = "int" THEN RInt(c.val) ELSE c.val

(***************************************************************************)
(* done_task.load_plan_csv                                                 *)
(***************************************************************************)
\* lines 66-72: a row whose hours do not parse is dropped; the Day cell is not read
RECURSIVE LoadCapacities(_)
LoadCapacities(rows) ==
    IF rows = <<>> THEN <<>>
    ELSE LET r == Head(rows)
         IN  (IF Len(r) >= 2 /\ FloatParses(r[2]) THEN <<FloatOf(r[2])>> ELSE <<>>)
             \o LoadCapacities(Tail(rows))

\* lines 93-97
AssignedField(r) ==
    IF Len(r) >= 3 /\ r[3].kind # "empty" /\ IntParses(r[3]) THEN IntOf(r[3]) ELSE 0

\* lines 98-102
TimeField(r) ==
    IF Len(r) >= 4 /\ r[4].kind # "empty" /\ FloatParses(r[4]) THEN FloatOf(r[4])
    ELSE RZero

\* lines 84-105: a row whose Day is no integer is dropped
RECURSIVE LoadPlanRows(_)
LoadPlanRows(rows) ==
    IF rows = <<>> THEN <<>>
    ELSE LET r == Head(rows)
         IN  (IF IntParses(r[1])
              THEN <<[day |-> IntOf(r[1]), name |-> r[2],
                      assigned |-> AssignedField(r), time |-> TimeField(r)]>>
              ELSE <<>>)
             \o LoadPlanRows(Tail(rows))

\* line 92 raises IndexError for a row with a Day and nothing else
LoadRaises(rows) == \E i \in 1..Len(rows) : IntParses(rows[i][1]) /\ Len(rows[i]) < 2

(***************************************************************************)
(* done_task.aggregate_tasks_from_plan                                     *)
(***************************************************************************)
\* mutant: the day of the first row read is kept
FirstDay_FirstRow(first_day, day_of_row) == first_day

\* line 125
FirstDay(first_day, day_of_row) == Min(first_day, day_of_row)

\* lines 113-125
RECURSIVE Aggregate(_, _)
Aggregate(rows, infos) ==
    IF rows = <<>> THEN infos
    ELSE LET r == Head(rows)
         IN  IF r.name = Idle THEN Aggregate(Tail(rows), infos)
             ELSE LET base == IF \E i \in 1..Len(infos) : infos[i].name = r.name
                              THEN infos
                              ELSE Append(infos, [name |-> r.name, total_assigned |-> 0,
                                                  time_per_item_samples |-> <<>>,
                                                  first_day |-> r.day])
                      i == CHOOSE i \in 1..Len(base) : base[i].name = r.name
                      upd == [base[i] EXCEPT
                                !.total_assigned = @ + r.assigned,
                                !.time_per_item_samples =
                                    IF r.assigned > 0
                                    THEN Append(@, RDiv(r.time, RInt(r.assigned)))
                                    ELSE @,
                                !.first_day = FirstDay(@, r.day)]
                  IN  Aggregate(Tail(rows), [base EXCEPT ![i] = upd])

\* lines 128-131
TimePerItem(samples) ==
    IF samples = <<>> THEN RInt(1) ELSE RDiv(RSumSeq(samples), RInt(Len(samples)))

aggregate_tasks_from_plan(rows) ==
    LET infos == Aggregate(rows, <<>>)
    IN  [i \in 1..Len(infos) |->
            [name |-> infos[i].name,
             total_assigned |-> infos[i].total_assigned,
             time_per_item_samples |-> infos[i].time_per_item_samples,
             first_day |-> infos[i].first_day,
             time_per_item |-> TimePerItem(infos[i].time_per_item_samples)]]

(***************************************************************************)
(* done_task.run                                                           *)
(***************************************************************************)
AssignedOf(rows) == SumSeq([i \in 1..Len(rows) |-> rows[i].assigned])

\* mutant: the cutoff day itself counts as past
Prev_IncludingToday(rows, name, t) ==
    AssignedOf(SelectSeq(rows, LAMBDA r : r.name = name /\ r.day <= t))

\* lines 204, 232
Prev(rows, name, t) ==
    AssignedOf(SelectSeq(rows, LAMBDA r : r.name = name /\ r.day < t))

\* line 205
TodayAssigned(rows, name, t) ==
    AssignedOf(SelectSeq(rows, LAMBDA r : r.name = name /\ r.day = t))

\* lines 192-197
TodayOf(s) == IF s.kind = "empty" THEN 1 ELSE Max(1, IntOf(s))

\* lines 207-209
Suggested(total_assigned, prev, today_assigned) ==
    Max(0, Min(total_assigned - prev, today_assigned))

\* lines 211-218
TypedDone(s, suggested) ==
    IF s.kind = "empty" THEN suggested
    ELSE IF IntParses(s) THEN IntOf(s) ELSE 0

\* line 220
MaxPossible(total_assigned, prev) == Max(0, total_assigned - prev)

\* mutant: no upper clamp
ClampDone_NoUpper(done, max_possible) == IF done < 0 THEN 0 ELSE done

\* lines 221-225
ClampDone(done, max_possible) ==
    LET d == IF done < 0 THEN 0 ELSE done
    IN  IF d > max_possible THEN max_possible ELSE d

\* lines 223-224
Warns(done, max_possible) == (IF done < 0 THEN 0 ELSE done) > max_possible

\* lines 234-236
DeriveRemaining(total_assigned, prev, done_today) ==
    Max(0, total_assigned - prev - done_today)

\* lines 250-252
HasNextDays(caps, t) == t < Len(caps)
NextDayCaps(caps, t) == SubSeq(caps, t + 1, Len(caps))

\* what the user can type
TodayInputs == {EmptyText} \cup {IntText(k) : k \in 0..MaxDays}
DoneInputs == {EmptyText, IntText(-1), IntText(1), IntText(10)}
\* capacities typed at lines 181-185 and 255-259
FreshCaps == {<<>>, <<Rat(1, 2), RInt(3)>>}

\* lines 160-187
RunLoad ==
    /\ pc = "run"
    /\ IF LoadRaises(csv_plan)
       THEN /\ pc' = "raised"
            /\ UNCHANGED <<run_day_capacities, plan_rows, tasks_info>>
       ELSE /\ \E fresh \in (IF LoadCapacities(csv_caps) = <<>> THEN FreshCaps ELSE {<<>>}) :
                run_day_capacities' =
                    IF LoadCapacities(csv_caps) = <<>> THEN fresh
                    ELSE LoadCapacities(csv_caps)
            /\ plan_rows' = LoadPlanRows(csv_plan)
            /\ tasks_info' = aggregate_tasks_from_plan(plan_rows')
            /\ pc' = "today"
    /\ UNCHANGED <<caller, csv_caps, csv_plan, today, ci, completed_by_task, warned,
                   remaining_tasks, next_day_caps, entered, asked>>
    /\ UNCHANGED allocVars
    /\ UNCHANGED saveVars

\* lines 190-197
RunToday ==
    /\ pc = "today"
    /\ \E s \in TodayInputs : today' = TodayOf(s)
    /\ ci' = 1
    /\ pc' = "complete"
    /\ UNCHANGED <<caller, csv_caps, csv_plan, run_day_capacities, plan_rows, tasks_info,
                   completed_by_task, warned, remaining_tasks, next_day_caps, entered,
                   asked>>
    /\ UNCHANGED allocVars
    /\ UNCHANGED saveVars

\* one iteration of the loop of lines 201-226
RunComplete ==
    /\ pc = "complete"
    /\ ci <= Len(tasks_info)
    /\ \E s \in DoneInputs :
        LET info == tasks_info[ci]
            total_assigned == info.total_assigned
            prev == Prev(plan_rows, info.name, today)
            today_assigned == TodayAssigned(plan_rows, info.name, today)
            done == TypedDone(s, Suggested(total_assigned, prev, today_assigned))
            max_possible == MaxPossible(total_assigned, prev)
        IN  /\ completed_by_task' =
                 Append(completed_by_task,
                        [name |-> info.name,
                         done_today |-> ClampDone(done, max_possible),
                         prev_done |-> prev])
            /\ warned' = IF Warns(done, max_possible) THEN warned \cup {info.name}
                         ELSE warned
            /\ entered' = Append(entered, s)
    /\ ci' = ci + 1
    /\ UNCHANGED <<pc, caller, csv_caps, csv_plan, run_day_capacities, plan_rows,
                   tasks_info, today, remaining_tasks, next_day_caps, asked>>
    /\ UNCHANGED allocVars
    /\ UNCHANGED saveVars

\* lines 229-247
RemainingTasks ==
    [i \in 1..Len(tasks_info) |->
        [name |-> tasks_info[i].name,
         remaining |-> DeriveRemaining(tasks_info[i].total_assigned,
                                       Prev(plan_rows, tasks_info[i].name, today),
                                       completed_by_task[i].done_today),
         time_per_item |-> tasks_info[i].time_per_item,
         difficulty |-> RInt(1),
         priority |-> tasks_info[i].first_day]]

\* lines 263-272
TasksForAlloc(rts) ==
    [i \in 1..Len(rts) |->
        TaskDict(rts[i].name, rts[i].remaining, rts[i].time_per_item,
                 rts[i].difficulty, rts[i].priority)]

\* lines 228-275, up to the call of allocate_by_priority
RunDerive ==
    /\ pc = "complete"
    /\ ci > Len(tasks_info)
    /\ remaining_tasks' = RemainingTasks
    /\ asked' = ~HasNextDays(run_day_capacities, today)
    /\ \E fresh \in (IF asked' THEN FreshCaps ELSE {<<>>}) :
        next_day_caps' = IF asked' THEN fresh
                         ELSE NextDayCaps(run_day_capacities, today)
    /\ tasks' = TasksForAlloc(remaining_tasks')
    /\ day_capacities' = next_day_caps'
    /\ pc' = "call"
    /\ UNCHANGED <<caller, csv_caps, csv_plan, run_day_capacities, plan_rows, tasks_info,
                   today, ci, completed_by_task, warned, entered>>
    /\ UNCHANGED <<tasks_sorted, plan, day, ti, remaining_time, any_assigned, tasks0,
                   start_remaining, log>>
    /\ UNCHANGED saveVars

(***************************************************************************)
(* The files run is started on.                                            *)
(***************************************************************************)
FileDays == 1..MaxDays
HoursTexts == {DecText(Rat(1, 2)), DecText(RInt(3))}
\* a Day Capacities section as written by _export_plan_csv (start = 1) and by
\* run (start = cutoff + 1)
CapSection(start, hs) == [i \in 1..Len(hs) |-> <<IntText(start + i - 1), hs[i]>>]
CapStarts == {1, 2}

NameSet == {Names[i] : i \in 1..Len(Names)}
PlanRows ==
    {<<IntText(d), n, IntText(a), DecText(t)>> :
        d \in FileDays, n \in NameSet, a \in 1..MaxAssigned, t \in {RZero}}
    \cup {<<IntText(f[1]), f[2], IntText(f[3]), DecText(RInt(f[3]))>> :
            f \in FileDays \X NameSet \X (1..MaxAssigned)}
    \cup {<<IntText(d), n, EmptyText, EmptyText>> : d \in FileDays, n \in NameSet \cup {Idle}}

\* the rows of a Plan section are in the order of their days
DayOrdered(rows) == \A i \in 1..(Len(rows) - 1) : rows[i][1].val <= rows[i + 1][1].val

\* files with a varied history
HistoryFiles ==
    {[caps |-> c, plan |-> p] :
        c \in {CapSection(1, <<DecText(Rat(1, 2)), DecText(RInt(3))>>)},
        p \in {q \in SeqsUpTo(PlanRows, 2) : DayOrdered(q)}}

\* files with a varied Day Capacities section
WindowFiles ==
    {[caps |-> CapSection(f[1], f[2]), plan |-> f[3]] :
        f \in CapStarts \X SeqsUpTo(HoursTexts \cup {EmptyText}, MaxDays)
              \X SeqsUpTo({<<IntText(1), "A", IntText(2), DecText(RInt(2))>>}, 1)}

\* files (edited by hand) whose Plan rows are not in the order of their days
UnorderedFiles ==
    {[caps |-> CapSection(1, <<DecText(Rat(1, 2)), DecText(RInt(3))>>),
      plan |-> <<<<IntText(2), f[1], IntText(1), DecText(RInt(1))>>,
                 <<IntText(1), f[2], IntText(1), DecText(RInt(1))>>>>] :
        f \in NameSet \X NameSet}

InitReplan ==
    /\ pc = "run"
    /\ caller = "run"
    /\ \E f \in HistoryFiles \cup WindowFiles \cup UnorderedFiles :
          csv_caps = f.caps /\ csv_plan = f.plan
    /\ day_capacities = <<>>
    /\ tasks = <<>>
    /\ AllocIdle
    /\ RunIdle
    /\ SaveIdle

NextReplan ==
    RunLoad \/ RunToday \/ RunComplete \/ RunDerive \/ AllocEnter \/ AllocDay \/ AllocTask

SpecReplan == InitReplan /\ [][NextReplan]_vars

(***************************************************************************)
(* Vocabulary of the properties.                                           *)
(***************************************************************************)
RECURSIVE Flatten(_)
Flatten(pl) == IF pl = <<>> THEN <<>> ELSE Head(pl) \o Flatten(Tail(pl))

RECURSIVE SumAssigned(_, _)
SumAssigned(recs, name) ==
    IF recs = <<>> THEN 0
    ELSE (IF Head(recs).name = name THEN Head(recs).assigned ELSE 0)
         + SumAssigned(Tail(recs), name)

\* items assigned to the task called name over all days of pl
AssignedInPlan(pl, name) == SumAssigned(Flatten(pl), name)

RECURSIVE SelectLog(_, _)
SelectLog(l, d) ==
    IF l = <<>> THEN <<>>
    ELSE (IF Head(l).day = d THEN <<Head(l)>> ELSE <<>>) \o SelectLog(Tail(l), d)

InAllocator == pc \in {"day", "task", "ret"}
\* day d (0-based) has been begun / has been completed
DayBegun(d) == InAllocator /\ d + 1 <= Len(start_remaining)
DayDone(d) == DayBegun(d) /\ (pc = "ret" \/ d < day)
Days == 0..(Len(day_capacities) - 1)
TaskIdx == 1..Len(tasks)
\* remaining of tasks[i] when day d was over
EndRemaining(d, i) ==
    IF d + 2 <= Len(start_remaining) THEN start_remaining[d + 2][i]
    ELSE tasks[i].remaining
Eligible(i) == RPos(TimePer(tasks[i]))
\* an entry of the log made although the day's time left was less than one item costs
Forced(e) == RLt(e.rt_before, e.time_per)

(***************************************************************************)
(* C1. Conservation: during and after allocate_by_priority, every task's   *)
(* remaining equals its remaining at entry minus the items the plan        *)
(* assigns to its name, and is never negative.                             *)
(***************************************************************************)
C1_Conservation ==
    InAllocator =>
        \A i \in TaskIdx :
            /\ tasks[i].remaining =
                 tasks0[i].remaining - AssignedInPlan(plan, tasks[i].name)
            /\ tasks0[i].remaining >= 0 => tasks[i].remaining >= 0

\* a finished call that assigned a task on two days, used one task up and
\* left items of another
C1_Witness ==
    /\ pc = "ret"
    /\ \E i, j \in TaskIdx :
        /\ tasks0[i].remaining > 0 /\ tasks[i].remaining = 0
        /\ \E d, e \in Days : d # e /\ SumAssigned(plan[d + 1], tasks[i].name) > 0
                                     /\ SumAssigned(plan[e + 1], tasks[i].name) > 0
        /\ tasks[j].remaining > 0 /\ tasks[j].remaining < tasks0[j].remaining

(***************************************************************************)
(* C2 as claimed. Every completed day with capacity > 0 at whose start     *)
(* some task had remaining > 0 has a non-empty assignment list.            *)
(***************************************************************************)
C2_AsClaimed ==
    \A d \in Days :
        (DayDone(d) /\ RPos(day_capacities[d + 1])
            /\ \E i \in TaskIdx : start_remaining[d + 1][i] > 0)
        => plan[d + 1] # <<>>

(***************************************************************************)
(* C2 amended. Every completed day with capacity > 0 at whose start some   *)
(* task with a positive per-item cost had remaining > 0 has a non-empty    *)
(* assignment list.                                                        *)
(***************************************************************************)
C2_CapacityOrForce ==
    \A d \in Days :
        (DayDone(d) /\ RPos(day_capacities[d + 1])
            /\ \E i \in TaskIdx : start_remaining[d + 1][i] > 0 /\ Eligible(i))
        => plan[d + 1] # <<>>

\* a completed day whose capacity is less than one item of the only task
\* with work left, which got its item all the same
C2_Witness ==
    \E d \in Days :
        /\ DayDone(d) /\ RPos(day_capacities[d + 1])
        /\ \E i \in TaskIdx :
            /\ start_remaining[d + 1][i] > 0 /\ Eligible(i)
            /\ RLt(day_capacities[d + 1], TimePer(tasks[i]))
            /\ \A j \in TaskIdx \ {i} : start_remaining[d + 1][j] = 0
            /\ Len(plan[d + 1]) = 1 /\ plan[d + 1][1].name = tasks[i].name

(***************************************************************************)
(* C6. Priority precedence within a day: of two tasks assigned on the same *)
(* day the one with the lower priority number is decremented first and     *)
(* its record comes first; no task has two records in one day.             *)
(***************************************************************************)
\* the task of that name (names are unique in a task list)
IndexOf(name) == CHOOSE i \in TaskIdx : tasks[i].name = name
C6_PriorityPrecedence ==
    InAllocator =>
        \A d \in Days :
            LET l == plan[d + 1]
                decs == SelectLog(log, d)
            IN  \* the records are in the order of the decrements
                /\ Len(decs) = Len(l)
                /\ \A p \in 1..Len(l) : decs[p].name = l[p].name
                /\ \A p, q \in 1..Len(l) :
                    /\ p # q => l[p].name # l[q].name
                    /\ tasks[IndexOf(l[p].name)].priority
                         < tasks[IndexOf(l[q].name)].priority => p < q

\* a day on which two tasks of different priority were assigned, the one
\* listed second in the caller's list first
C6_Witness ==
    /\ pc = "ret"
    /\ \E d \in Days :
        /\ Len(plan[d + 1]) = 2
        /\ plan[d + 1][1].name = "B" /\ plan[d + 1][2].name = "A"
        /\ tasks[1].priority > tasks[2].priority

(***************************************************************************)
(* C7. Idle day: a day of capacity 0 gets an empty list and changes no     *)
(* task's remaining, whatever work is left.                                *)
(***************************************************************************)
C7_IdleDay ==
    \A d \in Days :
        (DayBegun(d) /\ day_capacities[d + 1] = RZero) =>
            /\ plan[d + 1] = <<>>
            /\ \A i \in TaskIdx : EndRemaining(d, i) = start_remaining[d + 1][i]

\* a completed day of capacity 0 at whose start an assignable task had work
\* left, in a plan that assigns that task on another day
C7_Witness ==
    /\ pc = "ret"
    /\ \E d \in Days, i \in TaskIdx :
        /\ day_capacities[d + 1] = RZero
        /\ start_remaining[d + 1][i] > 0 /\ Eligible(i)
        /\ AssignedInPlan(plan, tasks[i].name) > 0

(***************************************************************************)
(* C8. A forced assignment (made although the time left of the day is      *)
(* less than the task's per-item cost) is of exactly 1 item, is the first  *)
(* assignment of its day and the last one: at most one per day.            *)
(***************************************************************************)
C8_OneOverflowPerDay ==
    \A x \in 1..Len(log) :
        Forced(log[x]) =>
            /\ log[x].assign = 1
            /\ ~log[x].any_before
            /\ \A y \in 1..Len(log) : (y # x /\ log[y].day = log[x].day) => FALSE

\* a finished call with a forced item on a day on which a second assignable
\* task also had work left
C8_Witness ==
    /\ pc = "ret"
    /\ \E x \in 1..Len(log) :
        /\ Forced(log[x])
        /\ \E i \in TaskIdx :
            /\ tasks[i].name # log[x].name
            /\ Eligible(i)
            /\ start_remaining[log[x].day + 1][i] > 0

(***************************************************************************)
(* C9. Degenerate tasks: a task whose time_per_item * difficulty is <= 0   *)
(* is in no day's list, keeps its remaining, and raises no error.          *)
(***************************************************************************)
C9_DegenerateSkipped ==
    /\ pc # "raised"
    /\ InAllocator =>
        \A i \in TaskIdx :
            ~Eligible(i) =>
                /\ tasks[i].remaining = tasks0[i].remaining
                /\ \A d \in Days : \A p \in 1..Len(plan[d + 1]) :
                     plan[d + 1][p].name # tasks[i].name

\* a finished call with a zero-cost task and a negative-cost task, both with
\* work left, on a day with time
C9_Witness ==
    /\ pc = "ret"
    /\ Len(tasks) = 2
    /\ tasks[1].remaining > 0 /\ tasks[2].remaining > 0
    /\ TimePer(tasks[1]) = RZero
    /\ RLt(TimePer(tasks[2]), RZero)
    /\ \E d \in Days : RPos(day_capacities[d + 1])

(***************************************************************************)
(* C10. Plan shape: the returned plan has one entry per capacity, entry d  *)
(* holding the assignments made on day d; for no capacities the plan is    *)
(* empty and the tasks are unchanged.                                      *)
(***************************************************************************)
C10_PlanShape ==
    pc = "ret" =>
        /\ Len(plan) = Len(day_capacities)
        /\ \A d \in Days :
            LET decs == SelectLog(log, d)
            IN  /\ Len(plan[d + 1]) = Len(decs)
                /\ \A p \in 1..Len(decs) :
                    plan[d + 1][p] = [name |-> decs[p].name, assigned |-> decs[p].assign,
                                      time |-> RScale(decs[p].assign, decs[p].time_per)]
        /\ Len(day_capacities) = 0 => (plan = <<>> /\ tasks = tasks0)

\* a returned plan of two days with different non-empty lists
C10_Witness ==
    /\ pc = "ret"
    /\ Len(day_capacities) = 2
    /\ plan[1] # <<>> /\ plan[2] # <<>> /\ plan[1] # plan[2]

(***************************************************************************)
(* Vocabulary of the replan properties: sums over the history, computed    *)
(* row by row.                                                             *)
(***************************************************************************)
\* items the history assigns to name on the days lo..hi
RECURSIVE HistAssigned(_, _, _, _)
HistAssigned(rows, name, lo, hi) ==
    IF rows = <<>> THEN 0
    ELSE (IF Head(rows).name = name /\ lo <= Head(rows).day /\ Head(rows).day <= hi
          THEN Head(rows).assigned ELSE 0)
         + HistAssigned(Tail(rows), name, lo, hi)

LastDay == MaxDays + 1
HistTotal(name) == HistAssigned(plan_rows, name, 0, LastDay)
HistPrev(name) == HistAssigned(plan_rows, name, 0, today - 1)
HistNames == {plan_rows[i].name : i \in 1..Len(plan_rows)} \ {Idle}

\* run has derived the remaining tasks and called the allocator
Derived == caller = "run" /\ pc \in {"call", "day", "task", "ret"}

\* hours the Day Capacities section records for the days after day c, in order
RECURSIVE RecordedAfter(_, _)
RecordedAfter(rows, c) ==
    IF rows = <<>> THEN <<>>
    ELSE (IF IntParses(Head(rows)[1]) /\ IntOf(Head(rows)[1]) > c
             /\ FloatParses(Head(rows)[2])
          THEN <<FloatOf(Head(rows)[2])>> ELSE <<>>)
         \o RecordedAfter(Tail(rows), c)

(***************************************************************************)
(* C3. Replan conservation: run derives for every task name of the history *)
(* remaining = max(0, total_assigned - prev - done_today), prev being the  *)
(* items assigned on days before the cutoff day, and the plan the          *)
(* allocator then builds never assigns a task more than that.              *)
(***************************************************************************)
C3_ReplanConservation ==
    Derived =>
        /\ HistNames = {remaining_tasks[i].name : i \in 1..Len(remaining_tasks)}
        /\ Len(remaining_tasks) = Cardinality(HistNames)
        /\ \A i \in 1..Len(remaining_tasks) :
            LET name == remaining_tasks[i].name
                derived == Max(0, HistTotal(name) - HistPrev(name)
                                  - completed_by_task[i].done_today)
            IN  /\ completed_by_task[i].name = name
                /\ remaining_tasks[i].remaining = derived
                /\ pc = "call" => tasks[i].name = name /\ tasks[i].remaining = derived
                /\ pc # "call" => AssignedInPlan(plan, name) <= derived

\* a finished replan of a task with items before the cutoff day, items done on
\* it and items left, all of them planned again over two days
C3_Witness ==
    /\ Derived /\ pc = "ret"
    /\ \E i \in 1..Len(remaining_tasks) :
        /\ HistPrev(remaining_tasks[i].name) > 0
        /\ completed_by_task[i].done_today > 0
        /\ remaining_tasks[i].remaining > 1
        /\ AssignedInPlan(plan, remaining_tasks[i].name) = remaining_tasks[i].remaining
        /\ Len(plan) = 2 /\ plan[1] # <<>> /\ plan[2] # <<>>

(***************************************************************************)
(* C4. Completion clamp: the done_today kept for a task lies in            *)
(* 0 .. max(0, total_assigned - prev); an entry below 0 becomes 0, an      *)
(* entry above the upper bound becomes the upper bound and a warning is    *)
(* printed; with total_assigned = 5, prev = 2 and entry 10, done_today is  *)
(* 3 and the remaining derived is 0.                                       *)
(***************************************************************************)
C4_CompletionClamp ==
    caller = "run" =>
        \A i \in 1..Len(completed_by_task) :
            LET name == completed_by_task[i].name
                done == completed_by_task[i].done_today
                upper == Max(0, HistTotal(name) - HistPrev(name))
                e == entered[i]
            IN  /\ 0 <= done /\ done <= upper
                /\ (IntParses(e) /\ IntOf(e) < 0) => done = 0
                /\ (IntParses(e) /\ IntOf(e) > upper) => (done = upper /\ name \in warned)
                /\ (HistTotal(name) = 5 /\ HistPrev(name) = 2 /\ e = IntText(10)) =>
                      /\ done = 3
                      /\ Derived => remaining_tasks[i].remaining = 0

\* the scenario: 5 items in the history, 2 of them before the cutoff day, 10
\* entered; the remaining tasks have been derived
C4_Witness ==
    /\ Derived
    /\ \E i \in 1..Len(completed_by_task) :
        /\ HistTotal(completed_by_task[i].name) = 5
        /\ HistPrev(completed_by_task[i].name) = 2
        /\ entered[i] = IntText(10)
        /\ completed_by_task[i].name \in warned

(***************************************************************************)
(* C5 as claimed. When the file records capacities for days after the      *)
(* cutoff day, the allocator is handed exactly those, in order; the user   *)
(* is asked for capacities only when the file records none for a later     *)
(* day.                                                                    *)
(***************************************************************************)
C5_ForwardWindow ==
    Derived =>
        LET later == RecordedAfter(csv_caps, today)
        IN  /\ later # <<>> => (next_day_caps = later /\ day_capacities = later)
            /\ asked => later = <<>>

(***************************************************************************)
(* The claims about the allocator continued.                               *)
(***************************************************************************)
\* tasks[g] is handled before tasks[f] on every day: lower priority number,
\* or the same number and earlier in the caller's list
Before(g, f) ==
    \/ tasks0[g].priority < tasks0[f].priority
    \/ tasks0[g].priority = tasks0[f].priority /\ g < f
\* tasks[f] had work and a positive cost at entry
Workable(f) == tasks0[f].remaining > 0 /\ Eligible(f)
\* tasks[f] is the first task in processing order that had work and a
\* positive cost at entry
FirstEligible(f) ==
    Workable(f) /\ \A g \in TaskIdx : (g # f /\ Workable(g)) => Before(f, g)

(***************************************************************************)
(* C11. Force assignment: on a single day whose capacity is positive and   *)
(* less than the per-item cost of the first eligible task, the day's list  *)
(* is exactly one record for that task, with count 1 and the full cost of  *)
(* one item as its time, and that task's remaining goes down by exactly 1. *)
(***************************************************************************)
C11_ForceScenario ==
    (pc = "ret" /\ Len(day_capacities) = 1 /\ RPos(day_capacities[1])) =>
        \A f \in TaskIdx :
            (FirstEligible(f) /\ RLt(day_capacities[1], TimePer(tasks[f])))
            => /\ plan[1] = <<[name |-> tasks[f].name, assigned |-> 1,
                               time |-> TimePer(tasks[f])]>>
               /\ tasks[f].remaining = tasks0[f].remaining - 1

\* half an hour for a first task of two hours an item, with a second task
\* whose items would have fitted
C11_Witness ==
    /\ pc = "ret" /\ day_capacities = <<Rat(1, 2)>> /\ Len(tasks) = 2
    /\ \E f, g \in TaskIdx :
        /\ f # g /\ FirstEligible(f) /\ Workable(g)
        /\ TimePer(tasks[f]) = RInt(2)
        /\ Len(plan[1]) = 1 /\ plan[1][1].name = tasks[f].name
        /\ tasks[g].remaining = tasks0[g].remaining

(***************************************************************************)
(* C16. Frame: a step of allocate_by_priority changes nothing of its       *)
(* arguments but the remaining of tasks: the capacities, the order and     *)
(* membership of the caller's list, and every task's name, time_per_item,  *)
(* difficulty and priority stay as they are.                               *)
(***************************************************************************)
\* what a step taken inside the allocator leaves alone
FrameStep ==
    pc \in {"call", "day", "task"} =>
        /\ day_capacities' = day_capacities
        /\ Len(tasks') = Len(tasks)
        /\ \A i \in 1..Len(tasks) :
            tasks'[i] = [tasks[i] EXCEPT !.remaining = tasks'[i].remaining]
C16_Frame == [][FrameStep]_vars

\* a finished call that processed the caller's list in another order than
\* the list's and took items from both tasks
C16_Witness ==
    /\ pc = "ret" /\ Len(tasks) = 2
    /\ tasks_sorted = <<2, 1>>
    /\ \A i \in TaskIdx : tasks[i].remaining < tasks0[i].remaining
    /\ \A i \in TaskIdx : [tasks[i] EXCEPT !.remaining = 0]
                            = [tasks0[i] EXCEPT !.remaining = 0]

(***************************************************************************)
(* The allocator on three tasks of positive cost (first_study_plan.main).  *)
(***************************************************************************)
MaxWork == 2
ThreeNames == <<"A", "B", "C">>
Caps3 == {Rat(1, 2), RInt(2)}
Difficulties3 == {RInt(1), RInt(3)}
TripleLists ==
    { [i \in 1..3 |-> TaskDict(ThreeNames[i], f[i][1], RInt(1), f[i][2], f[i][3])] :
        f \in [1..3 -> (1..MaxWork) \X Difficulties3 \X Priorities] }

InitAlloc3 ==
    /\ pc = "call"
    /\ caller = "main"
    /\ day_capacities \in SeqsUpTo(Caps3, MaxDays)
    /\ tasks \in TripleLists
    /\ AllocIdle
    /\ csv_caps = <<>>
    /\ csv_plan = <<>>
    /\ RunIdle
    /\ SaveIdle

SpecAlloc3 == InitAlloc3 /\ [][NextAlloc]_vars

\* tasks[i] has a record on day d
AssignedOn(d, i) == SumAssigned(plan[d + 1], tasks[i].name) > 0
\* the time of the records of recs that belong to tasks handled before tasks[x]
RECURSIVE TimeBefore(_, _)
TimeBefore(recs, x) ==
    IF recs = <<>> THEN RZero
    ELSE RAdd(IF Before(IndexOf(Head(recs).name), x) THEN Head(recs).time ELSE RZero,
              TimeBefore(Tail(recs), x))
\* the time of day d that was left when the turn of tasks[x] came
LeftAt(d, x) == RSub(day_capacities[d + 1], TimeBefore(plan[d + 1], x))
\* on day d tasks[y] got items while tasks[x], of lower priority number,
\* positive cost and with work left, got none
PassedOver(d, x, y) ==
    /\ DayDone(d)
    /\ tasks[x].priority < tasks[y].priority
    /\ AssignedOn(d, y) /\ ~AssignedOn(d, x)
    /\ Eligible(x) /\ start_remaining[d + 1][x] > 0

(***************************************************************************)
(* C17 as claimed. Front-loading: on no day is a task assigned items while *)
(* a task with strictly lower priority number, positive cost and           *)
(* remaining > 0 is passed over that day with no assignment.               *)
(***************************************************************************)
C17_AsClaimed ==
    \A d \in Days : \A x, y \in TaskIdx : ~PassedOver(d, x, y)

(***************************************************************************)
(* C17 amended. A task with lower priority number, positive cost and       *)
(* remaining > 0 is passed over on a day on which a later task is assigned *)
(* only if, when its turn came, an earlier task had been assigned that day *)
(* and the time left was less than the cost of one of its items.           *)
(***************************************************************************)
C17_FrontLoading ==
    \A d \in Days : \A x, y \in TaskIdx :
        PassedOver(d, x, y) =>
            /\ RLt(LeftAt(d, x), TimePer(tasks[x]))
            /\ RPos(TimeBefore(plan[d + 1], x))

\* two hours: A takes one, B at three hours an item is passed over, C takes
\* the other hour
C17_Witness ==
    /\ pc = "ret" /\ Len(tasks) = 3
    /\ \E d \in Days :
        /\ day_capacities[d + 1] = RInt(2)
        /\ PassedOver(d, 2, 3)
        /\ Len(plan[d + 1]) = 2
        /\ plan[d + 1][1].name = "A" /\ plan[d + 1][2].name = "C"
        /\ TimePer(tasks[2]) = RInt(3)

(***************************************************************************)
(* C12. Replan priority: the priority number run derives for a task is the *)
(* least day among the task's rows of the history (rows of the idle        *)
(* sentinel aside), so the new plan handles, on each day, a task whose     *)
(* earliest day is smaller before one whose earliest day is larger.        *)
(***************************************************************************)
\* the days of the rows of the history that name the task
HistDays(name) == {plan_rows[k].day : k \in {j \in 1..Len(plan_rows) : plan_rows[j].name = name}}
HistFirst(name) == CHOOSE d \in HistDays(name) : \A e \in HistDays(name) : d <= e
C12_ReplanPriority ==
    Derived =>
        /\ \A i \in 1..Len(remaining_tasks) :
            /\ remaining_tasks[i].name # Idle
            /\ remaining_tasks[i].priority = HistFirst(remaining_tasks[i].name)
            /\ tasks[i].name = remaining_tasks[i].name
            /\ tasks[i].priority = HistFirst(remaining_tasks[i].name)
        /\ pc # "call" =>
            /\ \A p, q \in 1..Len(tasks_sorted) :
                HistFirst(tasks[tasks_sorted[p]].name)
                    < HistFirst(tasks[tasks_sorted[q]].name) => p < q
            /\ \A d \in Days : \A p, q \in 1..Len(plan[d + 1]) :
                HistFirst(plan[d + 1][p].name) < HistFirst(plan[d + 1][q].name) => p < q

\* a history whose first row is of day 2 and whose second row, of another
\* task, is of day 1: the new plan assigns the second task first
C12_Witness ==
    /\ Derived /\ pc = "ret"
    /\ Len(plan_rows) = 2
    /\ plan_rows[1].day = 2 /\ plan_rows[2].day = 1
    /\ \E d \in Days :
        /\ Len(plan[d + 1]) = 2
        /\ plan[d + 1][1].name = plan_rows[2].name
        /\ plan[d + 1][2].name = plan_rows[1].name

(***************************************************************************)
(* load_plan_csv on files whose Plan rows were damaged: rows of one to     *)
(* four cells, with cells that do not parse.                               *)
(***************************************************************************)
DayCells == {IntText(1), OtherText}
AssignedCells == {IntText(2), DecText(Rat(1, 2)), EmptyText, OtherText}
TimeCells == {DecText(Rat(1, 2)), EmptyText, OtherText}
DamagedRows ==
    {<<d>> : d \in DayCells}
    \cup {<<d, "A">> : d \in DayCells}
    \cup {<<d, "A", a>> : d \in DayCells, a \in AssignedCells}
    \cup {<<d, "A", a, t>> : d \in DayCells, a \in AssignedCells, t \in TimeCells}
DamagedFiles ==
    {[caps |-> CapSection(1, <<DecText(Rat(1, 2)), DecText(RInt(3))>>), plan |-> p] :
        p \in SeqsUpTo(DamagedRows, 2)}

InitLoad ==
    /\ pc = "run"
    /\ caller = "run"
    /\ \E f \in DamagedFiles : csv_caps = f.caps /\ csv_plan = f.plan
    /\ day_capacities = <<>>
    /\ tasks = <<>>
    /\ AllocIdle
    /\ RunIdle
    /\ SaveIdle

NextLoad == RunLoad

SpecLoad == InitLoad /\ [][NextLoad]_vars

\* the rows of the Plan section whose Day is an integer, in order
HasDay(r) == IntParses(r[1])
KeptRows == SelectSeq(csv_plan, HasDay)

(***************************************************************************)
(* C15. Lossy recovery in load_plan_csv: whatever the cells of a Plan row  *)
(* contain and however many there are, loading does not raise; a row with  *)
(* an integer Day is kept, with assigned = 0 for an empty or unparsable    *)
(* Assigned cell and time = 0.0 for an empty or unparsable Time cell, and  *)
(* the rows before and after it are loaded as they are.                    *)
(***************************************************************************)
C15_LossyRecovery ==
    /\ pc # "raised"
    /\ pc = "today" =>
        /\ Len(plan_rows) = Len(KeptRows)
        /\ \A k \in 1..Len(KeptRows) :
            LET r == KeptRows[k]
            IN  /\ plan_rows[k].day = IntOf(r[1])
                /\ plan_rows[k].assigned =
                     IF Len(r) >= 3 /\ r[3].kind = "int" THEN r[3].val ELSE 0
                /\ plan_rows[k].time =
                     IF Len(r) >= 4 /\ r[4].kind \in {"int", "dec"}
                     THEN FloatOf(r[4]) ELSE RZero

(***************************************************************************)
(* Writing a plan file.  f"{h:.2f}" rounds to hundredths, ties to even     *)
(* (the ties of binary floats that are no ties of the rationals are not    *)
(* modelled).                                                              *)
(***************************************************************************)
Round2(r) ==
    LET n == Abs(r.n) * 100
        q == n \div r.d
        rem == n % r.d
        up == 2 * rem > r.d \/ (2 * rem = r.d /\ q % 2 = 1)
        v == IF up THEN q + 1 ELSE q
    IN  Rat(IF r.n < 0 THEN 0 - v ELSE v, 100)

\* f"{h:.2f}"
Fmt2(h) == DecText(Round2(h))

\* mutant: the rows are numbered from day 1 whatever the first day is
WriteCaps_FromOne(start_day, caps) ==
    [i \in 1..Len(caps) |-> <<IntText(i), Fmt2(caps[i])>>]

\* the rows of the Day Capacities section: first_study_plan.py lines 213-214
\* (start_day = 1), done_task.py lines 370-371, plan_gui.py lines 455-456
WriteCaps(start_day, caps) ==
    [i \in 1..Len(caps) |-> <<IntText(start_day + i - 1), Fmt2(caps[i])>>]

\* mutant: only the first assignment of a day is written
WriteDay_FirstOnly(daynum, day_tasks) ==
    IF day_tasks = <<>> THEN << <<IntText(daynum), Idle, EmptyText, EmptyText>> >>
    ELSE << <<IntText(daynum), day_tasks[1].name, IntText(day_tasks[1].assigned),
              Fmt2(day_tasks[1].time)>> >>

\* the Plan rows of one day: first_study_plan.py lines 221-225, done_task.py
\* lines 377-381, plan_gui.py lines 461-465
WriteDay(daynum, day_tasks) ==
    IF day_tasks = <<>> THEN << <<IntText(daynum), Idle, EmptyText, EmptyText>> >>
    ELSE [k \in 1..Len(day_tasks) |->
            <<IntText(daynum), day_tasks[k].name, IntText(day_tasks[k].assigned),
              Fmt2(day_tasks[k].time)>>]

\* the rows of the Plan section: first_study_plan.py lines 220-225,
\* done_task.py lines 376-381, plan_gui.py lines 460-465
RECURSIVE WritePlan(_, _)
WritePlan(start_day, pl) ==
    IF pl = <<>> THEN <<>>
    ELSE WriteDay(start_day, Head(pl)) \o WritePlan(start_day + 1, Tail(pl))

\* done_task.run lines 277-383: the plan is shown and, the user agreeing,
\* written with the day numbers offset by start_day = today + 1
RunSave ==
    /\ pc = "ret"
    /\ caller = "run"
    /\ out_caps' = WriteCaps(today + 1, next_day_caps)
    /\ out_plan' = WritePlan(today + 1, plan)
    /\ pc' = "saved"
    /\ UNCHANGED combined_plan
    /\ UNCHANGED runVars
    /\ UNCHANGED allocVars

\* first_study_plan.save_plan / _export_plan_csv (lines 188-228): the file
\* the replan is later started on
MainSave ==
    /\ pc = "ret"
    /\ caller = "main"
    /\ csv_caps' = WriteCaps(1, day_capacities)
    /\ csv_plan' = WritePlan(1, plan)
    /\ pc' = "exported"
    /\ UNCHANGED <<caller, run_day_capacities, plan_rows, tasks_info, today, ci,
                   completed_by_task, warned, remaining_tasks, next_day_caps, entered,
                   asked>>
    /\ UNCHANGED allocVars
    /\ UNCHANGED saveVars

\* done_task.run is started on the file written by first_study_plan
RunStart ==
    /\ pc = "exported"
    /\ pc' = "run"
    /\ caller' = "run"
    /\ UNCHANGED <<csv_caps, csv_plan, run_day_capacities, plan_rows, tasks_info, today,
                   ci, completed_by_task, warned, remaining_tasks, next_day_caps,
                   entered, asked>>
    /\ UNCHANGED allocVars
    /\ UNCHANGED saveVars

(***************************************************************************)
(* PlannerGUI._load_csv_for_update and PlannerGUI._apply_today_replan.     *)
(* plan_rows stands for self.loaded_plan_rows, tasks_info for the dict     *)
(* tasks, completed_by_task for the dict done_today, next_day_caps for     *)
(* next_caps.                                                              *)
(***************************************************************************)
\* lines 308-311
GuiTodayOf(s) ==
    IF s.kind = "empty" THEN 1 ELSE IF IntParses(s) THEN IntOf(s) ELSE 1

\* lines 313-320
RECURSIVE GuiAggregate(_, _)
GuiAggregate(rows, infos) ==
    IF rows = <<>> THEN infos
    ELSE LET r == Head(rows)
         IN  IF r.name = Idle THEN GuiAggregate(Tail(rows), infos)
             ELSE LET base == IF \E i \in 1..Len(infos) : infos[i].name = r.name
                              THEN infos
                              ELSE Append(infos, [name |-> r.name, total_assigned |-> 0,
                                                  time_per_item_samples |-> <<>>,
                                                  first_day |-> r.day])
                      i == CHOOSE i \in 1..Len(base) : base[i].name = r.name
                      upd == [base[i] EXCEPT
                                !.total_assigned = @ + r.assigned,
                                !.time_per_item_samples =
                                    IF r.assigned > 0
                                    THEN Append(@, RDiv(r.time, RInt(r.assigned)))
                                    ELSE @,
                                !.first_day = Min(@, r.day)]
                  IN  GuiAggregate(Tail(rows), [base EXCEPT ![i] = upd])

\* line 327
GuiSuggested(total_assigned, prev, today_assigned) ==
    Min(total_assigned - prev, today_assigned)

\* lines 329-332
GuiDoneOf(s, suggested) ==
    IF s.kind = "empty" THEN suggested
    ELSE IF IntParses(s) THEN IntOf(s) ELSE 0

\* lines 338-339
GuiRem(total_assigned, prev, done) ==
    LET rem == total_assigned - prev - done
    IN  IF rem < 0 THEN 0 ELSE rem

\* line 340
GuiTpi(samples) ==
    IF samples # <<>> THEN RDiv(RSumSeq(samples), RInt(Len(samples))) ELSE RInt(1)

\* lines 336-342
GuiRemainingTasks ==
    [i \in 1..Len(tasks_info) |->
        [name |-> tasks_info[i].name,
         remaining |-> GuiRem(tasks_info[i].total_assigned,
                              Prev(plan_rows, tasks_info[i].name, today),
                              completed_by_task[i].done_today),
         time_per_item |-> GuiTpi(tasks_info[i].time_per_item_samples),
         difficulty |-> RInt(1),
         priority |-> tasks_info[i].first_day]]

\* what the user can type for the hours of the next days, cut at the commas
GuiCapTexts ==
    {<<EmptyText>>, <<IntText(3)>>, <<DecText(Rat(1, 2)), IntText(3)>>,
     <<OtherText, DecText(Rat(1, 2))>>}

\* lines 347-350: the parts that are no numbers are left out
RECURSIVE GuiNextCaps(_)
GuiNextCaps(parts) ==
    IF parts = <<>> THEN <<>>
    ELSE (IF FloatParses(Head(parts)) THEN <<FloatOf(Head(parts))>> ELSE <<>>)
         \o GuiNextCaps(Tail(parts))

\* lines 245-302, with done_task.load_plan_csv
GuiLoad ==
    /\ pc = "gui"
    /\ IF LoadRaises(csv_plan)
       THEN pc' = "raised" /\ UNCHANGED plan_rows
       ELSE plan_rows' = LoadPlanRows(csv_plan) /\ pc' = "loaded"
    /\ UNCHANGED <<caller, csv_caps, csv_plan, run_day_capacities, tasks_info, today, ci,
                   completed_by_task, warned, remaining_tasks, next_day_caps, entered,
                   asked>>
    /\ UNCHANGED allocVars
    /\ UNCHANGED saveVars

\* lines 304-320
GuiApply ==
    /\ pc = "loaded"
    /\ plan_rows # <<>>
    /\ \E s \in TodayInputs : today' = GuiTodayOf(s)
    /\ tasks_info' = GuiAggregate(plan_rows, <<>>)
    /\ ci' = 1
    /\ pc' = "done"
    /\ UNCHANGED <<caller, csv_caps, csv_plan, run_day_capacities, plan_rows,
                   completed_by_task, warned, remaining_tasks, next_day_caps, entered,
                   asked>>
    /\ UNCHANGED allocVars
    /\ UNCHANGED saveVars

\* one iteration of the loop of lines 324-333
GuiDone ==
    /\ pc = "done"
    /\ ci <= Len(tasks_info)
    /\ \E s \in DoneInputs :
        LET info == tasks_info[ci]
            prev == Prev(plan_rows, info.name, today)
            today_assigned == TodayAssigned(plan_rows, info.name, today)
            suggested == GuiSuggested(info.total_assigned, prev, today_assigned)
        IN  /\ completed_by_task' =
                 Append(completed_by_task,
                        [name |-> info.name, done_today |-> GuiDoneOf(s, suggested),
                         prev_done |-> prev])
            /\ entered' = Append(entered, s)
    /\ ci' = ci + 1
    /\ UNCHANGED <<pc, caller, csv_caps, csv_plan, run_day_capacities, plan_rows,
                   tasks_info, today, warned, remaining_tasks, next_day_caps, asked>>
    /\ UNCHANGED allocVars
    /\ UNCHANGED saveVars

\* lines 336-357, up to the call of allocate_by_priority (closing the dialog
\* of line 345 returns and changes nothing)
GuiDerive ==
    /\ pc = "done"
    /\ ci > Len(tasks_info)
    /\ remaining_tasks' = GuiRemainingTasks
    /\ asked' = TRUE
    /\ \E typed \in GuiCapTexts : next_day_caps' = GuiNextCaps(typed)
    /\ tasks' = TasksForAlloc(remaining_tasks')
    /\ day_capacities' = next_day_caps'
    /\ pc' = "call"
    /\ UNCHANGED <<caller, csv_caps, csv_plan, run_day_capacities, plan_rows, tasks_info,
                   today, ci, completed_by_task, warned, entered>>
    /\ UNCHANGED <<tasks_sorted, plan, day, ti, remaining_time, any_assigned, tasks0,
                   start_remaining, log>>
    /\ UNCHANGED saveVars

\* lines 381-388: the rows of the days after cutoff_day, sentinel rows too
FutureRows(rows, cutoff_day) == SelectSeq(rows, LAMBDA r : r.day > cutoff_day)

\* lines 379-386
RECURSIVE MaxFutureDay(_, _)
MaxFutureDay(rows, cutoff_day) ==
    IF rows = <<>> THEN cutoff_day
    ELSE Max(Head(rows).day, MaxFutureDay(Tail(rows), cutoff_day))

\* mutant: the sentinel rows are carried over like assignments
FutureDay_Unfiltered(rows, daynum) ==
    LET day_tasks == SelectSeq(rows, LAMBDA r : r.day = daynum)
    IN  [k \in 1..Len(day_tasks) |->
            [name |-> day_tasks[k].name, assigned |-> day_tasks[k].assigned,
             time |-> day_tasks[k].time]]

\* lines 392-398: the entry of day daynum
FutureDay(rows, daynum) ==
    LET day_tasks == SelectSeq(rows, LAMBDA r : r.day = daynum)
        filtered == SelectSeq(day_tasks, LAMBDA t : t.name # "" /\ t.name # Idle)
    IN  [k \in 1..Len(filtered) |->
            [name |-> filtered[k].name, assigned |-> filtered[k].assigned,
             time |-> filtered[k].time]]

\* lines 378-398
FuturePlan(rows, cutoff_day) ==
    LET future == FutureRows(rows, cutoff_day)
        max_future_day == MaxFutureDay(future, cutoff_day)
    IN  IF future = <<>> THEN <<>>
        ELSE [j \in 1..(max_future_day - cutoff_day) |-> FutureDay(future, cutoff_day + j)]

\* lines 362-430: the new plan and the rows of the days after it are shown,
\* from Day today + 1 on
GuiSplice ==
    /\ pc = "ret"
    /\ caller = "gui"
    /\ combined_plan' = plan \o FuturePlan(plan_rows, today + Len(next_day_caps))
    /\ pc' = "shown"
    /\ UNCHANGED <<out_caps, out_plan>>
    /\ UNCHANGED runVars
    /\ UNCHANGED allocVars

\* lines 433-466, the user agreeing and naming a file
GuiSave ==
    /\ pc = "shown"
    /\ out_caps' = WriteCaps(today + 1, next_day_caps)
    /\ out_plan' = WritePlan(today + 1, plan)
    /\ pc' = "saved"
    /\ UNCHANGED combined_plan
    /\ UNCHANGED runVars
    /\ UNCHANGED allocVars

(***************************************************************************)
(* The two replans, done_task.run and the GUI's, started on the same       *)
(* files: up to two rows on the days 1..MaxDays + 2.                       *)
(***************************************************************************)
EntryDays == 1..(MaxDays + 2)
EntryRows ==
    {<<IntText(d), n, IntText(1), DecText(RInt(1))>> : d \in EntryDays, n \in {"A", "B", ""}}
    \cup {<<IntText(d), "A", IntText(2), DecText(RInt(1))>> : d \in EntryDays}
    \cup {<<IntText(d), Idle, EmptyText, EmptyText>> : d \in EntryDays}
EntryFiles ==
    {[caps |-> CapSection(1, <<DecText(Rat(1, 2)), DecText(RInt(3))>>), plan |-> p] :
        p \in {q \in SeqsUpTo(EntryRows, 2) : DayOrdered(q)}}

InitEntry ==
    /\ caller \in {"run", "gui"}
    /\ pc = caller
    /\ \E f \in EntryFiles : csv_caps = f.caps /\ csv_plan = f.plan
    /\ day_capacities = <<>>
    /\ tasks = <<>>
    /\ AllocIdle
    /\ RunIdle
    /\ SaveIdle

NextEntry ==
    \/ RunLoad \/ RunToday \/ RunComplete \/ RunDerive \/ RunSave
    \/ GuiLoad \/ GuiApply \/ GuiDone \/ GuiDerive \/ GuiSplice \/ GuiSave
    \/ AllocEnter \/ AllocDay \/ AllocTask

SpecEntry == InitEntry /\ [][NextEntry]_vars

(***************************************************************************)
(* Vocabulary of the properties of the two replans.                        *)
(***************************************************************************)
\* the written Plan rows of day d, in order
OutRowsOf(d) == SelectSeq(out_plan, LAMBDA r : r[1] = IntText(d))
\* the text is h to two decimals
TwoDecimals(text, h) ==
    /\ text.kind = "dec"
    /\ text.val.d \in {1, 2, 4, 5, 10, 20, 25, 50, 100}
    /\ RLe(RScale(200, RSub(text.val, h)), RInt(1))
    /\ RLe(RScale(200, RSub(h, text.val)), RInt(1))
\* the GUI has shown its combined plan
Shown == caller = "gui" /\ pc \in {"shown", "saved"}
\* the rows of the history of day d that pass the test keep, as plan records
HistRecords(d, keep(_)) ==
    LET rs == SelectSeq(plan_rows, LAMBDA r : r.day = d /\ keep(r.name))
    IN  [k \in 1..Len(rs) |->
            [name |-> rs[k].name, assigned |-> rs[k].assigned, time |-> rs[k].time]]
NotSentinel(name) == name # Idle
NamedTask(name) == name # Idle /\ name # ""

(***************************************************************************)
(* C13. Persisted layout of a replanned plan: a replan at cutoff day c     *)
(* whose plan has N days writes Day Capacities rows for the days           *)
(* c+1 .. c+N and Plan rows of these days only; index i of the plan is     *)
(* written under day c+1+i, one row per assignment or, for a day without   *)
(* assignment, exactly one row with the idle sentinel and empty Assigned   *)
(* and Time, so every day c+1 .. c+N has a Plan row.                       *)
(***************************************************************************)
C13_PersistedLayout ==
    pc = "saved" =>
        LET c == today
            N == Len(plan)
        IN  /\ Len(out_caps) = N
            /\ \A i \in 1..N :
                /\ out_caps[i][1] = IntText(c + i)
                /\ TwoDecimals(out_caps[i][2], next_day_caps[i])
            /\ \A k \in 1..Len(out_plan) :
                \E i \in 0..(N - 1) : out_plan[k][1] = IntText(c + 1 + i)
            /\ \A k \in 1..(Len(out_plan) - 1) : out_plan[k][1].val <= out_plan[k + 1][1].val
            /\ \A i \in 0..(N - 1) :
                LET rows == OutRowsOf(c + 1 + i)
                    day_tasks == plan[i + 1]
                IN  /\ Len(rows) >= 1
                    /\ IF day_tasks = <<>>
                       THEN rows = << <<IntText(c + 1 + i), Idle, EmptyText, EmptyText>> >>
                       ELSE /\ Len(rows) = Len(day_tasks)
                            /\ \A k \in 1..Len(rows) :
                                /\ rows[k][2] = day_tasks[k].name
                                /\ rows[k][3] = IntText(day_tasks[k].assigned)
                                /\ TwoDecimals(rows[k][4], day_tasks[k].time)

\* a replan at cutoff day 2 over two days, the first with an assignment and
\* the second without, saved
C13_Witness ==
    /\ pc = "saved" /\ today = 2
    /\ Len(plan) = 2 /\ plan[1] # <<>> /\ plan[2] = <<>>
    /\ out_caps = <<<<IntText(3), DecText(Rat(1, 2))>>, <<IntText(4), DecText(RInt(3))>>>>
    /\ Len(out_plan) = 2
    /\ out_plan[1][1] = IntText(3) /\ out_plan[1][3] = IntText(1)
    /\ out_plan[2] = <<IntText(4), Idle, EmptyText, EmptyText>>

(***************************************************************************)
(* C14 as claimed. Splice in the GUI replan: the entries of the combined   *)
(* plan for the days cutoff+1 .. cutoff+len(next_caps) are the allocator's *)
(* plan, and every later entry, shown as Day d, holds exactly the rows of  *)
(* the history of day d that are no sentinel rows, with name, count and    *)
(* time unchanged and in their order (an empty entry if there are none).   *)
(***************************************************************************)
C14_AsClaimed ==
    Shown =>
        LET n == Len(next_day_caps)
        IN  /\ Len(combined_plan) >= n
            /\ SubSeq(combined_plan, 1, n) = plan
            /\ \A j \in (n + 1)..Len(combined_plan) :
                combined_plan[j] = HistRecords(today + j, NotSentinel)

(***************************************************************************)
(* C14 amended. As claimed, but a later entry holds the rows of its day    *)
(* whose name is neither the sentinel nor empty; and every such row of a   *)
(* day after cutoff+len(next_caps) is in the entry of its day.             *)
(***************************************************************************)
C14_Splice ==
    Shown =>
        LET n == Len(next_day_caps)
        IN  /\ Len(combined_plan) >= n
            /\ SubSeq(combined_plan, 1, n) = plan
            /\ \A j \in (n + 1)..Len(combined_plan) :
                combined_plan[j] = HistRecords(today + j, NamedTask)
            /\ \A k \in 1..Len(plan_rows) :
                (plan_rows[k].day > today + n /\ NamedTask(plan_rows[k].name))
                => plan_rows[k].day - today <= Len(combined_plan)

\* a replan at cutoff day 1 over one day, with a history that has nothing for
\* day 3 and two rows for day 4, B before A
C14_Witness ==
    /\ Shown /\ today = 1
    /\ Len(plan) = 1 /\ Len(combined_plan) = 3
    /\ combined_plan[2] = <<>>
    /\ Len(combined_plan[3]) = 2
    /\ combined_plan[3][1].name = "B" /\ combined_plan[3][2].name = "A"

(***************************************************************************)
(* C19. The two replan entry points agree: on the same history rows, the   *)
(* same cutoff day and the same typed counts, the remaining tasks the GUI  *)
(* derives (name, remaining, time_per_item, difficulty, priority) are      *)
(* those done_task.run derives.                                            *)
(***************************************************************************)
\* the GUI has derived its remaining tasks
GuiDerived == caller = "gui" /\ pc \in {"call", "day", "task", "ret", "shown", "saved"}
\* what lines 199-247 of done_task.run derive from the rows, the cutoff day
\* and the texts typed
RunWouldDerive ==
    LET infos == aggregate_tasks_from_plan(plan_rows)
    IN  [i \in 1..Len(infos) |->
            LET total_assigned == infos[i].total_assigned
                prev == Prev(plan_rows, infos[i].name, today)
                today_assigned == TodayAssigned(plan_rows, infos[i].name, today)
                done == TypedDone(entered[i], Suggested(total_assigned, prev, today_assigned))
                done_today == ClampDone(done, MaxPossible(total_assigned, prev))
            IN  [name |-> infos[i].name,
                 remaining |-> DeriveRemaining(total_assigned, prev, done_today),
                 time_per_item |-> infos[i].time_per_item,
                 difficulty |-> RInt(1),
                 priority |-> infos[i].first_day]]
C19_EntryPointsAgree ==
    (GuiDerived /\ today >= 1) => remaining_tasks = RunWouldDerive

(***************************************************************************)
(* C20. No double scheduling in the GUI's combined plan: for every task    *)
(* the counts assigned over all days of the combined plan (the newly       *)
(* allocated days and the spliced tail) sum to no more than the remaining  *)
(* derived for it, max(0, total_assigned - prev - done_today).             *)
(***************************************************************************)
\* the last day a row of the files can have
EntryLast == MaxDays + 2
C20_NoDoubleScheduling ==
    Shown =>
        \A i \in 1..Len(remaining_tasks) :
            LET name == remaining_tasks[i].name
            IN  AssignedInPlan(combined_plan, name)
                  <= Max(0, HistAssigned(plan_rows, name, 0, EntryLast)
                            - HistAssigned(plan_rows, name, 0, today - 1)
                            - completed_by_task[i].done_today)

(***************************************************************************)
(* From planning to replanning: first_study_plan plans and writes its      *)
(* file, done_task.run is started on that file and derives the remaining   *)
(* tasks (up to its call of the allocator).  plan, tasks0 and log stay     *)
(* those of the first plan.                                                *)
(***************************************************************************)
TripCaps == {Rat(1, 2), RInt(3)}
TripDifficulties == {RInt(1), RInt(2)}
TripLists ==
    UNION {
      { [i \in 1..k |-> TaskDict(Names[i], f[i][1], RInt(1), f[i][2], f[i][3])] :
          f \in [1..k -> (0..MaxRemaining) \X TripDifficulties \X Priorities] }
      : k \in 0..Len(Names) }

InitTrip ==
    /\ pc = "call"
    /\ caller = "main"
    /\ day_capacities \in SeqsUpTo(TripCaps, MaxDays)
    /\ tasks \in TripLists
    /\ AllocIdle
    /\ csv_caps = <<>>
    /\ csv_plan = <<>>
    /\ RunIdle
    /\ SaveIdle

\* the allocator as called by first_study_plan.main (line 300)
MainAllocEnter == caller = "main" /\ AllocEnter
MainAllocDay == caller = "main" /\ AllocDay
MainAllocTask == caller = "main" /\ AllocTask

NextTrip ==
    \/ MainAllocEnter \/ MainAllocDay \/ MainAllocTask
    \/ MainSave \/ RunStart
    \/ RunLoad \/ RunToday \/ RunComplete \/ RunDerive

SpecTrip == InitTrip /\ [][NextTrip]_vars

\* run, started on the file of the first plan, has derived the remaining tasks
Replanned == caller = "run" /\ pc = "call"
\* items the first plan assigns to name on day c (1-based), on the days 1..c
PlannedOn(c, name) == IF c \in 1..Len(plan) THEN SumAssigned(plan[c], name) ELSE 0
PlannedUpTo(c, name) == AssignedInPlan(SubSeq(plan, 1, Min(c, Len(plan))), name)
\* the user reported as completed what the first plan assigns on the cutoff day
ReportedAsPlanned ==
    \A i \in 1..Len(completed_by_task) :
        completed_by_task[i].done_today = PlannedOn(today, completed_by_task[i].name)
\* the remaining run derives for name; nothing if run derives no such task
DerivedFor(name) ==
    LET idx == {i \in 1..Len(remaining_tasks) : remaining_tasks[i].name = name}
    IN  IF idx = {} THEN 0 ELSE remaining_tasks[CHOOSE i \in idx : TRUE].remaining

(***************************************************************************)
(* C18 as claimed. No work is lost between planning and replanning: when   *)
(* the user reports as completed the items assigned on cutoff day c, the   *)
(* replan of the saved plan derives for every original task its original   *)
(* total minus the items assigned to it on the days <= c, the items the    *)
(* first allocation could not schedule included.                           *)
(***************************************************************************)
C18_NoWorkLost ==
    (Replanned /\ ReportedAsPlanned) =>
        \A t \in 1..Len(tasks0) :
            DerivedFor(tasks0[t].name)
                = tasks0[t].total - PlannedUpTo(today, tasks0[t].name)

(***************************************************************************)
(* C18 amended. Under the same report the replan derives for every         *)
(* original task the items the saved plan assigns to it on the days after  *)
(* c, and derives a task exactly for the original tasks that have an       *)
(* assignment in the plan; what the first allocation did not schedule is   *)
(* not in it.                                                              *)
(***************************************************************************)
C18_ScheduledWorkKept ==
    (Replanned /\ ReportedAsPlanned) =>
        /\ \A t \in 1..Len(tasks0) :
            LET name == tasks0[t].name
            IN  /\ DerivedFor(name)
                     = AssignedInPlan(plan, name) - PlannedUpTo(today, name)
                /\ (\E i \in 1..Len(remaining_tasks) : remaining_tasks[i].name = name)
                     <=> AssignedInPlan(plan, name) > 0
        /\ \A i \in 1..Len(remaining_tasks) :
            \E t \in 1..Len(tasks0) : tasks0[t].name = remaining_tasks[i].name

\* a first plan over two days that assigns both tasks on day 1 and leaves
\* items of one unscheduled, replanned at cutoff day 1 with work left
C18_Witness ==
    /\ Replanned /\ ReportedAsPlanned /\ today = 1
    /\ Len(plan) = 2 /\ Len(plan[1]) = 2 /\ Len(tasks0) = 2
    /\ \E t \in 1..2 : tasks0[t].total > AssignedInPlan(plan, tasks0[t].name)
    /\ \E t \in 1..2 : DerivedFor(tasks0[t].name) > 0

(***************************************************************************)
(* Further claims about the allocator.                                     *)
(***************************************************************************)
\* the time of the records of one day
TimeOf(recs) == RSumSeq([k \in 1..Len(recs) |-> recs[k].time])
\* the time of day d that the day's records leave (negative after a forced item)
Leftover(d) == RSub(day_capacities[d + 1], TimeOf(plan[d + 1]))

(***************************************************************************)
(* C21. Capacity is exceeded only by a single forced item: the times of    *)
(* the records of a day sum to at most the day's capacity, unless the      *)
(* day's list is exactly one record of count 1, and then the overrun is    *)
(* less than the cost of one item of that task.                            *)
(***************************************************************************)
C21_SingleForcedOverrun ==
    InAllocator =>
        \A d \in Days :
            LET l == plan[d + 1]
            IN  \/ RLe(TimeOf(l), day_capacities[d + 1])
                \/ /\ Len(l) = 1
                   /\ l[1].assigned = 1
                   /\ RLt(RSub(TimeOf(l), day_capacities[d + 1]),
                          TimePer(tasks[IndexOf(l[1].name)]))

\* a call with a day that a forced item overran and a day that two tasks
\* filled without overrun
C21_Witness ==
    /\ pc = "ret"
    /\ \E d, e \in Days :
        /\ Len(plan[d + 1]) = 1 /\ plan[d + 1][1].assigned = 1
        /\ RLt(day_capacities[d + 1], TimeOf(plan[d + 1]))
        /\ Len(plan[e + 1]) = 2
        /\ TimeOf(plan[e + 1]) = day_capacities[e + 1]

(***************************************************************************)
(* C23. Greedy maximality per day: when a day's pass is over, the time the *)
(* day's records leave is less than the cost of one item of every task     *)
(* that still has remaining > 0 and a positive cost.                       *)
(***************************************************************************)
C23_GreedyMaximal ==
    \A d \in Days :
        DayDone(d) =>
            \A i \in TaskIdx :
                (EndRemaining(d, i) > 0 /\ Eligible(i))
                => RLt(Leftover(d), TimePer(tasks[i]))

\* a completed day of three hours on which a task at two hours an item got
\* one item and kept work, the hour left being too short for it
C23_Witness ==
    \E d \in Days : \E i \in TaskIdx :
        /\ DayDone(d) /\ day_capacities[d + 1] = RInt(3)
        /\ TimePer(tasks[i]) = RInt(2)
        /\ EndRemaining(d, i) > 0
        /\ plan[d + 1] = <<[name |-> tasks[i].name, assigned |-> 1, time |-> RInt(2)]>>
        /\ Leftover(d) = RInt(1)

(***************************************************************************)
(* C24. Stable tie-break: tasks of equal priority are handled on every day *)
(* in the order of the caller's list, so of two such tasks assigned on the *)
(* same day the one listed first is decremented first and recorded first.  *)
(***************************************************************************)
C24_StableTieBreak ==
    InAllocator =>
        /\ \A p, q \in 1..Len(tasks_sorted) :
            (p < q /\ tasks[tasks_sorted[p]].priority = tasks[tasks_sorted[q]].priority)
            => tasks_sorted[p] < tasks_sorted[q]
        /\ \A d \in Days :
            LET l == plan[d + 1]
                decs == SelectLog(log, d)
            IN  \A p, q \in 1..Len(l) :
                    (tasks[IndexOf(l[p].name)].priority = tasks[IndexOf(l[q].name)].priority
                     /\ IndexOf(l[p].name) < IndexOf(l[q].name))
                    => p < q /\ decs[p].name = l[p].name /\ decs[q].name = l[q].name

\* two tasks of equal priority on a day of three hours: A, listed first,
\* takes all it needs and B gets the rest, less than it needs
C24_Witness ==
    /\ pc = "ret" /\ Len(tasks) = 2
    /\ tasks[1].priority = tasks[2].priority
    /\ \E d \in Days :
        /\ day_capacities[d + 1] = RInt(3)
        /\ Len(plan[d + 1]) = 2
        /\ plan[d + 1][1].name = "A" /\ plan[d + 1][2].name = "B"
        /\ EndRemaining(d, 1) = 0 /\ EndRemaining(d, 2) > 0

(***************************************************************************)
(* C22. Exhausted tasks are inert and remaining is monotone: no step of    *)
(* allocate_by_priority raises a task's remaining; a task whose remaining  *)
(* is 0, at entry (a task the replan derived with nothing left) or after   *)
(* some day used it up, keeps remaining 0 and gets no further record, and  *)
(* it stays in the task list.                                              *)
(***************************************************************************)
\* the records of pl that name the task
RecordsOf(pl, name) == SelectSeq(Flatten(pl), LAMBDA r : r.name = name)
InertStep ==
    pc \in {"call", "day", "task"} =>
        /\ Len(tasks') = Len(tasks)
        /\ \A i \in 1..Len(tasks) :
            /\ tasks'[i].name = tasks[i].name
            /\ tasks'[i].remaining <= tasks[i].remaining
            /\ tasks[i].remaining = 0 =>
                /\ tasks'[i].remaining = 0
                /\ pc # "call" =>
                     RecordsOf(plan', tasks[i].name) = RecordsOf(plan, tasks[i].name)
C22_ExhaustedInert == [][InertStep]_vars

\* a replan that derived a task with nothing left and a task with work: the
\* call is over, the first has no record and is still listed, the second
\* was used up on the first day and has no record on the second
C22_Witness ==
    /\ caller = "run" /\ pc = "ret"
    /\ Len(tasks) = 2 /\ Len(plan) = 2
    /\ \E i, j \in TaskIdx :
        /\ tasks0[i].remaining = 0 /\ RecordsOf(plan, tasks[i].name) = <<>>
        /\ tasks0[j].remaining > 0 /\ tasks[j].remaining = 0
        /\ SumAssigned(plan[1], tasks[j].name) = tasks0[j].remaining
        /\ plan[2] = <<>> /\ RPos(day_capacities[2])

====
